---- MODULE Spec2Model ----
(***************************************************************************)
(* SnapTrace: the session / evidence persistence layer (utils/storage.ts)  *)
(* and its callers.  Every async function is split at its awaits: each     *)
(* IndexedDB request and each chrome.storage.local call is one atomic      *)
(* step, and steps of calls issued from different extension contexts       *)
(* (popup, background) interleave.                                         *)
(*                                                                         *)
(* The session record of storage.ts carries no `archived` property; its    *)
(* readers (SessionList.tsx:31) test it by truthiness, so the model keeps  *)
(* the flag as a boolean that is FALSE for a record that never got one.    *)
(***************************************************************************)
EXTENDS Integers, Sequences, FiniteSets, TLC

\* ---------------------------------------------------------------- bounds
MaxSessions == 2
MaxItems == 2
MaxClock == 1
MaxK == 1
MaxCalls == 3
MaxSeqCalls == 5
MaxRaceCalls == 3
MaxSumCalls == 5
MaxBgCalls == 4
MaxUiCalls == 4
MaxExports == 3
MaxObjects == 2
MaxEditorOps == 6

Ids == 1..MaxSessions
Null == 0
Ctx == {1, 2}
Names == {"S1", "S2"}
Ks == 0..MaxK
EvidenceInputs ==
  { [description |-> "d1", imageUrl |-> "img1", url |-> "u1"],
    [description |-> "d2", imageUrl |-> "img2", url |-> "u2"] }

VARIABLES
  sessions,   \* object store 'sessions': id -> Session, domain = stored ids
  appState,   \* object store 'appState', key 'activeSessionId' (Null = absent)
  mirror,     \* chrome.storage.local activeSessionId (Null = absent)
  clock,      \* the last value Date.now() returned
  usedIds,    \* how many session ids uuidv4 has handed out
  itemSeq,    \* how many evidence item ids uuidv4 has handed out
  pc,         \* per context: the await the running call is parked at
  frame,      \* per context: the running call's arguments and locals
  added,      \* per session id: evidence of the addEvidenceToSession calls that returned
  archOrder,  \* the ids archiveSession has marked, in the order it marked them
  budget,     \* calls the contexts may still start
  view,         \* content script: which overlay is shown
  captureImage, \* content script: the screenshot SHOW_CAPTURE_UI delivered
  croppedImage, \* content script: the image handed to the annotation editor
  isSaving,     \* AnnotationModal: a save was started in this editor
  submit,       \* ColdStartModal.handleSubmit: its pending CREATE_SESSION request
  save,         \* ContentApp.handleSaveEvidence: its pending SAVE_EVIDENCE request
  inbox,        \* messages the background sent to the tab, not yet delivered
  outbox,       \* requests the tab sent to the background, not yet handled
  timers,       \* session ids whose 500 ms auto-capture timer is pending
  toggle,       \* handleToggleCapture: the tab it found and what it sent
  arrived,      \* per created session: which of response / message the tab processed
  offDoc,            \* the offscreen document: "none" or "exists"
  creatingOffscreen, \* background global: "null", or the promise's state
  exports,           \* per export request: the await handleExport is parked at
  apiQ,              \* chrome API calls issued by the background, not yet served
  replyQ,            \* results of served calls, not yet delivered to the background
  canvas,       \* annotation editor: the objects on the fabric canvas
  imgElement,   \* annotation editor: the background image has loaded
  history,      \* historyRef.current: saved canvas states, oldest first
  redoStack,    \* redoStackRef.current: undone states, most recently undone last
  loads,        \* loadFromJSON calls that have not finished
  nextObj,      \* how many objects the user has drawn
  lastOp        \* the editor handler that ran last

contentVars == <<view, captureImage, croppedImage, isSaving, submit, save, inbox, outbox,
                 timers, toggle, arrived>>

offVars == <<offDoc, creatingOffscreen, exports, apiQ, replyQ>>

editVars == <<canvas, imgElement, history, redoStack, loads, nextObj, lastOp>>

uiVars == <<contentVars, offVars, editVars>>

storeVars == <<sessions, appState, mirror, clock, usedIds, itemSeq, added, archOrder>>

vars == <<sessions, appState, mirror, clock, usedIds, itemSeq, pc, frame, added, archOrder, budget,
          uiVars>>

NoSession == [id |-> Null, name |-> "", createdAt |-> 0, archived |-> FALSE, items |-> <<>>]
NoEvidence == [description |-> "", imageUrl |-> "", url |-> ""]

EmptyFrame ==
  [op |-> "none", id |-> Null, name |-> "", ev |-> NoEvidence, K |-> 0,
   session |-> NoSession, target |-> Null, activeId |-> Null, evict |-> <<>>,
   evicted |-> {},
   summaries |-> <<>>,
   result |-> "none", preApp |-> Null, preMirror |-> Null, preSessions |-> << >>]

\* A frame for a call entered now: the arguments are filled in by the caller.
\* preApp, preMirror and preSessions remember the pointer and the store the
\* call found.
NewFrame(op, id) ==
  [EmptyFrame EXCEPT !.op = op, !.id = id, !.preApp = appState, !.preMirror = mirror,
                     !.preSessions = sessions]

\* ------------------------------------------------------- store primitives
\* Mutant: the record is written without its archived status.
PutUnarchived(ss, s) ==
  [i \in (DOMAIN ss) \cup {s.id} |->
     IF i = s.id THEN [s EXCEPT !.archived = FALSE] ELSE ss[i]]

\* Mutant: the store is replaced by the record.
PutAlone(ss, s) == [i \in {s.id} |-> s]

\* db.put('sessions', s): upsert keyed by s.id
Put(ss, s) == [i \in (DOMAIN ss) \cup {s.id} |-> IF i = s.id THEN s ELSE ss[i]]

\* Mutant: the record is not removed.
DeleteNothing(ss, id) == ss

\* Mutant: the whole store is cleared.
DeleteAll(ss, id) == << >>

\* db.delete('sessions', id): no error when absent
Delete(ss, id) == [i \in (DOMAIN ss) \ {id} |-> ss[i]]

\* db.get('sessions', id)
Get(ss, id) == IF id \in DOMAIN ss THEN ss[id] ELSE NoSession

\* Mutant: the not-found check is missing.
FoundAlways(s) == TRUE

\* !session
Found(s) == s.id # Null

\* Date.now(): time does not run backwards; two reads may see the same value.
Now == {n \in {clock, clock + 1} : n <= MaxClock}

Views == {"NONE", "COLD_START", "CAPTURE", "ANNOTATE"}
Images == {"shot1", "shot2"}
NoImage == ""
NoToggle == [tab |-> FALSE, captured |-> FALSE, sent |-> {}]
NoRequest == [st |-> "idle", id |-> Null]

\* ContentApp's useState initial values; nothing is in flight.
ContentStart ==
  /\ view = "NONE"
  /\ captureImage = NoImage
  /\ croppedImage = NoImage
  /\ isSaving = FALSE
  /\ submit = NoRequest
  /\ save = "idle"
  /\ inbox = <<>>
  /\ outbox = <<>>
  /\ timers = {}
  /\ toggle = NoToggle
  /\ arrived = [i \in Ids |-> {}]

Exports == 1..MaxExports

\* let creatingOffscreen = null; no offscreen document, no export running.
OffscreenStart ==
  /\ offDoc = "none"
  /\ creatingOffscreen = "null"
  /\ exports = [r \in Exports |-> "idle"]
  /\ apiQ = <<>>
  /\ replyQ = <<>>

\* AnnotationModal mounted: an empty canvas, empty stacks, image not loaded.
EditorStart ==
  /\ canvas = {}
  /\ imgElement = FALSE
  /\ history = <<>>
  /\ redoStack = <<>>
  /\ loads = <<>>
  /\ nextObj = 0
  /\ lastOp = "none"

Start ==
  /\ ContentStart
  /\ OffscreenStart
  /\ EditorStart
  /\ sessions = << >>
  /\ appState = Null
  /\ mirror = Null
  /\ clock = 0
  /\ usedIds = 0
  /\ itemSeq = 0
  /\ pc = [c \in Ctx |-> "idle"]
  /\ frame = [c \in Ctx |-> EmptyFrame]
  /\ added = [i \in Ids |-> <<>>]
  /\ archOrder = <<>>

Init == Start /\ budget = MaxCalls

InitSeq == Start /\ budget = MaxSeqCalls

\* Move context c to label l with frame f.
Goto(c, l, f) ==
  /\ pc' = [pc EXCEPT ![c] = l]
  /\ frame' = [frame EXCEPT ![c] = f]

\* A context that runs no call starts one.
Enter(c) ==
  /\ pc[c] = "idle"
  /\ budget > 0
  /\ budget' = budget - 1

\* ------------------------------------------------------ createNewSession
NewSession(id, name, now) ==
  [id |-> id, name |-> name, createdAt |-> now, archived |-> FALSE, items |-> <<>>]

\* Mutant: the id generator repeats the id it gave last.
StaleId == IF usedIds = 0 THEN 1 ELSE usedIds

\* uuidv4(): an id no session ever had
FreshId == usedIds + 1

CreateCall(c) ==
  /\ Enter(c)
  /\ usedIds < MaxSessions
  /\ \E name \in Names, now \in Now :
       LET s == NewSession(FreshId, name, now) IN
       /\ usedIds' = usedIds + 1
       /\ clock' = now
       /\ sessions' = Put(sessions, s)
       /\ Goto(c, "create_app", [NewFrame("create", s.id) EXCEPT !.name = name, !.session = s])
  /\ UNCHANGED <<appState, mirror, itemSeq, added, archOrder, uiVars>>

CreateSetAppState(c) ==
  /\ pc[c] = "create_app"
  /\ appState' = frame[c].session.id
  /\ Goto(c, "create_mirror", frame[c])
  /\ UNCHANGED <<sessions, mirror, clock, usedIds, itemSeq, added, archOrder, budget, uiVars>>

CreateSetMirror(c) ==
  /\ pc[c] = "create_mirror"
  /\ mirror' = frame[c].session.id
  /\ Goto(c, "done", [frame[c] EXCEPT !.result = "ok"])
  /\ UNCHANGED <<sessions, appState, clock, usedIds, itemSeq, added, archOrder, budget, uiVars>>

\* The store rejects a write (quota exceeded, transaction aborted): the await
\* throws and createNewSession ends there; nothing it wrote before is undone.
CreateCallFails(c) ==
  /\ Enter(c)
  /\ \E name \in Names :
       Goto(c, "done", [NewFrame("create", Null) EXCEPT !.name = name, !.result = "write failed"])
  /\ UNCHANGED <<sessions, appState, mirror, clock, usedIds, itemSeq, added, archOrder, uiVars>>

CreateSetAppStateFails(c) ==
  /\ pc[c] = "create_app"
  /\ Goto(c, "done", [frame[c] EXCEPT !.result = "write failed"])
  /\ UNCHANGED <<sessions, appState, mirror, clock, usedIds, itemSeq, added, archOrder, budget, uiVars>>

CreateSetMirrorFails(c) ==
  /\ pc[c] = "create_mirror"
  /\ Goto(c, "done", [frame[c] EXCEPT !.result = "write failed"])
  /\ UNCHANGED <<sessions, appState, mirror, clock, usedIds, itemSeq, added, archOrder, budget, uiVars>>

\* ------------------------------------------------------- setActiveSession
\* The ids a caller can hold: those of the sessions it was once shown
\* (SessionItem's onActivate(session.id)); the session may be archived or
\* gone by now.
KnownIds == 1..usedIds

ActivateCall(c) ==
  /\ Enter(c)
  /\ \E id \in KnownIds :
       /\ appState' = id
       /\ Goto(c, "act_mirror", NewFrame("activate", id))
  /\ UNCHANGED <<sessions, mirror, clock, usedIds, itemSeq, added, archOrder, uiVars>>

\* Mutant: the mirror is left as it was.
ActivateMirrorKept(c) ==
  /\ pc[c] = "act_mirror"
  /\ Goto(c, "done", [frame[c] EXCEPT !.result = "ok"])
  /\ UNCHANGED <<sessions, appState, mirror, clock, usedIds, itemSeq, added, archOrder, budget, uiVars>>

ActivateSetMirror(c) ==
  /\ pc[c] = "act_mirror"
  /\ mirror' = frame[c].id
  /\ Goto(c, "done", [frame[c] EXCEPT !.result = "ok"])
  /\ UNCHANGED <<sessions, appState, clock, usedIds, itemSeq, added, archOrder, budget, uiVars>>

\* ---------------------------------------------------------- deleteSession
\* After deleteSession(target) returns: archiveSession's eviction loop goes on
\* to its next victim, a direct call is complete.
AfterDelete(c, f) ==
  IF f.evict # <<>> THEN Goto(c, "arch_evict", f)
  ELSE Goto(c, "done", [f EXCEPT !.result = "ok"])

DeleteCall(c) ==
  /\ Enter(c)
  /\ \E id \in Ids :
       /\ sessions' = Delete(sessions, id)
       /\ Goto(c, "del_read", [NewFrame("delete", id) EXCEPT !.target = id])
  /\ UNCHANGED <<appState, mirror, clock, usedIds, itemSeq, added, archOrder, uiVars>>

DeleteGetActive(c) ==
  /\ pc[c] = "del_read"
  /\ LET f == [frame[c] EXCEPT !.activeId = appState] IN
       IF f.activeId = f.target THEN Goto(c, "del_app", f) ELSE AfterDelete(c, f)
  /\ UNCHANGED <<sessions, appState, mirror, clock, usedIds, itemSeq, added, archOrder, budget, uiVars>>

DeleteAppState(c) ==
  /\ pc[c] = "del_app"
  /\ appState' = Null
  /\ Goto(c, "del_mirror", frame[c])
  /\ UNCHANGED <<sessions, mirror, clock, usedIds, itemSeq, added, archOrder, budget, uiVars>>

\* Mutant: the mirror is left as it was.
DeleteMirrorKept(c) ==
  /\ pc[c] = "del_mirror"
  /\ AfterDelete(c, frame[c])
  /\ UNCHANGED <<sessions, appState, mirror, clock, usedIds, itemSeq, added, archOrder, budget, uiVars>>

DeleteMirror(c) ==
  /\ pc[c] = "del_mirror"
  /\ mirror' = Null
  /\ AfterDelete(c, frame[c])
  /\ UNCHANGED <<sessions, appState, clock, usedIds, itemSeq, added, archOrder, budget, uiVars>>

\* --------------------------------------------------- addEvidenceToSession
\* Mutant: the caller's description is not copied into the item.
NewItemBlank(ev, now) ==
  [id |-> itemSeq + 1, timestamp |-> now, imageUrl |-> ev.imageUrl,
   description |-> "", url |-> ev.url]

NewItem(ev, now) ==
  [id |-> itemSeq + 1, timestamp |-> now, imageUrl |-> ev.imageUrl,
   description |-> ev.description, url |-> ev.url]

\* Mutant: unshift instead of push.
PushFront(s, item) == [s EXCEPT !.items = <<item>> \o @]

\* session.items.push(newItem)
Push(s, item) == [s EXCEPT !.items = Append(@, item)]

AddCall(c) ==
  /\ Enter(c)
  /\ itemSeq + Cardinality({d \in Ctx : pc[d] = "add_put"}) < MaxItems
  /\ \E id \in Ids, ev \in EvidenceInputs :
       LET s == Get(sessions, id)
           f == [NewFrame("add", id) EXCEPT !.ev = ev, !.session = s] IN
       IF Found(s) THEN Goto(c, "add_put", f)
       ELSE Goto(c, "done", [f EXCEPT !.result = "Session not found"])
  /\ UNCHANGED <<sessions, appState, mirror, clock, usedIds, itemSeq, added, archOrder, uiVars>>

AddPut(c) ==
  /\ pc[c] = "add_put"
  /\ \E now \in Now :
       LET f == frame[c]
           s == Push(f.session, NewItem(f.ev, now)) IN
       /\ clock' = now
       /\ sessions' = Put(sessions, s)
       /\ itemSeq' = itemSeq + 1
       /\ added' = [added EXCEPT ![f.id] = Append(@, f.ev)]
       /\ Goto(c, "done", [f EXCEPT !.session = s, !.result = "ok"])
  /\ UNCHANGED <<appState, mirror, usedIds, archOrder, budget, uiVars>>

\* Mutant: the record is stored although the write is reported as failed.
AddPutFailsStored(c) ==
  /\ pc[c] = "add_put"
  /\ LET f == frame[c]
         s == Push(f.session, NewItem(f.ev, clock)) IN
       /\ sessions' = Put(sessions, s)
       /\ Goto(c, "done", [f EXCEPT !.result = "QuotaExceededError"])
  /\ UNCHANGED <<appState, mirror, clock, usedIds, itemSeq, added, archOrder, budget, uiVars>>

\* db.put('sessions', session) rejects: the await throws, the record pushed to
\* was the caller's copy, the store is not written.
AddPutFails(c) ==
  /\ pc[c] = "add_put"
  /\ Goto(c, "done", [frame[c] EXCEPT !.result = "QuotaExceededError"])
  /\ UNCHANGED <<sessions, appState, mirror, clock, usedIds, itemSeq, added, archOrder, budget, uiVars>>

\* ----------------------------------------- handleSaveEvidence (background)
\* Mutant: the active id is read from the mirror.
SaveCallFromMirror(c) ==
  /\ Enter(c)
  /\ itemSeq + Cardinality({d \in Ctx : pc[d] = "add_put"}) < MaxItems
  /\ \E ev \in EvidenceInputs :
       LET f == [NewFrame("save", mirror) EXCEPT !.ev = ev, !.activeId = mirror] IN
       IF f.activeId = Null THEN Goto(c, "done", [f EXCEPT !.result = "No active session"])
       ELSE Goto(c, "save_get", f)
  /\ UNCHANGED <<sessions, appState, mirror, clock, usedIds, itemSeq, added, archOrder, uiVars>>

\* const activeId = await getActiveSessionId(); if (!activeId) throw
SaveCall(c) ==
  /\ Enter(c)
  /\ itemSeq + Cardinality({d \in Ctx : pc[d] = "add_put"}) < MaxItems
  /\ \E ev \in EvidenceInputs :
       LET f == [NewFrame("save", appState) EXCEPT !.ev = ev, !.activeId = appState] IN
       IF f.activeId = Null THEN Goto(c, "done", [f EXCEPT !.result = "No active session"])
       ELSE Goto(c, "save_get", f)
  /\ UNCHANGED <<sessions, appState, mirror, clock, usedIds, itemSeq, added, archOrder, uiVars>>

\* addEvidenceToSession(activeId, ...): its db.get; its write is AddPut.
SaveGet(c) ==
  /\ pc[c] = "save_get"
  /\ LET s == Get(sessions, frame[c].id)
         f == [frame[c] EXCEPT !.session = s] IN
       IF Found(s) THEN Goto(c, "add_put", f)
       ELSE Goto(c, "done", [f EXCEPT !.result = "Session not found"])
  /\ UNCHANGED <<sessions, appState, mirror, clock, usedIds, itemSeq, added, archOrder, budget, uiVars>>

\* .then(() => sendResponse({ success: true }))
\* .catch(err => sendResponse({ success: false, error: err.message }))
Reply(f) ==
  [success |-> f.result = "ok", error |-> IF f.result = "ok" THEN "" ELSE f.result]

\* ---------------------------------------------------------- renameSession
RenameCall(c) ==
  /\ Enter(c)
  /\ \E id \in Ids, name \in Names :
       LET s == Get(sessions, id)
           f == [NewFrame("rename", id) EXCEPT !.name = name, !.session = s] IN
       IF Found(s) THEN Goto(c, "rename_put", f)
       ELSE Goto(c, "done", [f EXCEPT !.result = "Session not found"])
  /\ UNCHANGED <<sessions, appState, mirror, clock, usedIds, itemSeq, added, archOrder, uiVars>>

\* Mutant: a new record is written instead of the loaded one with its name
\* replaced.
RenamePutFresh(c) ==
  /\ pc[c] = "rename_put"
  /\ LET f == frame[c]
         s == [NoSession EXCEPT !.id = f.id, !.name = f.name] IN
       /\ sessions' = Put(sessions, s)
       /\ Goto(c, "done", [f EXCEPT !.session = s, !.result = "ok"])
  /\ UNCHANGED <<appState, mirror, clock, usedIds, itemSeq, added, archOrder, budget, uiVars>>

RenamePut(c) ==
  /\ pc[c] = "rename_put"
  /\ LET f == frame[c]
         s == [f.session EXCEPT !.name = f.name] IN
       /\ sessions' = Put(sessions, s)
       /\ Goto(c, "done", [f EXCEPT !.session = s, !.result = "ok"])
  /\ UNCHANGED <<appState, mirror, clock, usedIds, itemSeq, added, archOrder, budget, uiVars>>

\* --------------------------------------------------------- archiveSession
ArchivedIds(ss) == {i \in DOMAIN ss : ss[i].archived}

\* The orders archived.sort((a, b) => a.createdAt - b.createdAt) can give:
\* createdAt ascending; sessions with equal createdAt stay in getAll's key
\* order, which for uuid keys is unrelated to the order of creation.
SortByCreatedAt(ss, S) ==
  {q \in [1..Cardinality(S) -> S] :
     /\ \A i, j \in DOMAIN q : i # j => q[i] # q[j]
     /\ \A i, j \in DOMAIN q : i < j => ss[q[i]].createdAt <= ss[q[j]].createdAt}

\* What retention deletes, given the sorted archived ids: the first
\* (count - limit) of them.
Excess(sorted, K) ==
  IF Len(sorted) > K THEN SubSeq(sorted, 1, Len(sorted) - K) ELSE <<>>

ArchiveCall(c) ==
  /\ Enter(c)
  /\ \E id \in Ids, K \in Ks :
       LET s == Get(sessions, id)
           f == [NewFrame("archive", id) EXCEPT !.K = K, !.session = s] IN
       IF Found(s) THEN Goto(c, "arch_put", f)
       ELSE Goto(c, "done", [f EXCEPT !.result = "Session not found"])
  /\ UNCHANGED <<sessions, appState, mirror, clock, usedIds, itemSeq, added, archOrder, uiVars>>

ArchivePut(c) ==
  /\ pc[c] = "arch_put"
  /\ LET f == frame[c]
         s == [f.session EXCEPT !.archived = TRUE] IN
       /\ sessions' = Put(sessions, s)
       /\ appState' = IF appState = f.id THEN Null ELSE appState
       /\ mirror' = IF appState = f.id THEN Null ELSE mirror
       /\ archOrder' = IF \E k \in DOMAIN archOrder : archOrder[k] = f.id
                       THEN archOrder ELSE Append(archOrder, f.id)
       /\ Goto(c, "arch_scan", [f EXCEPT !.session = s])
  /\ UNCHANGED <<clock, usedIds, itemSeq, added, budget, uiVars>>

ArchiveScan(c) ==
  /\ pc[c] = "arch_scan"
  /\ \E sorted \in SortByCreatedAt(sessions, ArchivedIds(sessions)) :
       LET f == [frame[c] EXCEPT !.evict = Excess(sorted, frame[c].K)] IN
       IF f.evict # <<>> THEN Goto(c, "arch_evict", f)
       ELSE Goto(c, "done", [f EXCEPT !.result = "ok"])
  /\ UNCHANGED <<sessions, appState, mirror, clock, usedIds, itemSeq, added, archOrder, budget, uiVars>>

ArchiveEvict(c) ==
  /\ pc[c] = "arch_evict"
  /\ LET f == frame[c] IN
       /\ sessions' = Delete(sessions, Head(f.evict))
       /\ Goto(c, "del_read", [f EXCEPT !.target = Head(f.evict), !.evict = Tail(f.evict),
                                         !.evicted = @ \cup {Head(f.evict)}])
  /\ UNCHANGED <<appState, mirror, clock, usedIds, itemSeq, added, archOrder, budget, uiVars>>

\* ---------------------------------------------------- getSessionSummaries
\* Mutant: every summary reports no items.
SummaryNoCount(s) ==
  [id |-> s.id, name |-> s.name, createdAt |-> s.createdAt, itemCount |-> 0]

\* summaries.push({ id, name, createdAt, itemCount: session.items.length })
Summary(s) ==
  [id |-> s.id, name |-> s.name, createdAt |-> s.createdAt, itemCount |-> Len(s.items)]

\* The summary with the archived status, as archiving.test.ts reads it; the
\* summary of storage.ts does not carry it.
SessionSummary(s) == Summary(s) @@ [archived |-> s.archived]

\* The cursor visits the records in key order.
KeyOrder(S) ==
  CHOOSE q \in [1..Cardinality(S) -> S] : \A i, j \in DOMAIN q : i < j => q[i] < q[j]

\* One readonly transaction over the store: the cursor sees one state of it.
GetSessionSummaries(ss) ==
  [k \in 1..Cardinality(DOMAIN ss) |-> SessionSummary(ss[KeyOrder(DOMAIN ss)[k]])]

SummariesCall(c) ==
  /\ Enter(c)
  /\ Goto(c, "done", [NewFrame("summaries", Null) EXCEPT
                        !.summaries = GetSessionSummaries(sessions), !.result = "ok"])
  /\ UNCHANGED <<sessions, appState, mirror, clock, usedIds, itemSeq, added, archOrder, uiVars>>

\* The caller's result is read, and the context is free for its next call.
Return(c) ==
  /\ pc[c] = "done"
  /\ Goto(c, "idle", EmptyFrame)
  /\ UNCHANGED <<sessions, appState, mirror, clock, usedIds, itemSeq, added, archOrder, budget, uiVars>>

Step(c) ==
  \/ CreateCall(c)
  \/ CreateSetAppState(c)
  \/ CreateSetMirror(c)
  \/ ActivateCall(c)
  \/ ActivateSetMirror(c)
  \/ DeleteCall(c)
  \/ DeleteGetActive(c)
  \/ DeleteAppState(c)
  \/ DeleteMirror(c)
  \/ AddCall(c)
  \/ AddPut(c)
  \/ RenameCall(c)
  \/ RenamePut(c)
  \/ ArchiveCall(c)
  \/ ArchivePut(c)
  \/ ArchiveScan(c)
  \/ ArchiveEvict(c)
  \/ Return(c)

\* Calls from two contexts, interleaved at their awaits.
Next == \E c \in Ctx : Step(c) \/ SummariesCall(c)

Spec == Init /\ [][Next]_vars

\* One context issuing its calls one after the other, each awaited.
NextSeq == Step(1)

SpecSeq == InitSeq /\ [][NextSeq]_vars

\* One context that also lists the sessions between its calls.
InitSum == Start /\ budget = MaxSumCalls

NextSum == Step(1) \/ SummariesCall(1)

SpecSum == InitSum /\ [][NextSum]_vars

\* The background context: the CREATE_SESSION and SAVE_EVIDENCE handlers and
\* the pointer changes of the popup, one call at a time, with writes the
\* store may reject.
InitBg == Start /\ budget = MaxBgCalls

NextBg ==
  \/ CreateCall(1)
  \/ CreateCallFails(1)
  \/ CreateSetAppState(1)
  \/ CreateSetAppStateFails(1)
  \/ CreateSetMirror(1)
  \/ CreateSetMirrorFails(1)
  \/ ActivateCall(1)
  \/ ActivateSetMirror(1)
  \/ DeleteCall(1)
  \/ DeleteGetActive(1)
  \/ DeleteAppState(1)
  \/ DeleteMirror(1)
  \/ AddCall(1)
  \/ SaveCall(1)
  \/ SaveGet(1)
  \/ AddPut(1)
  \/ AddPutFails(1)
  \/ Return(1)

SpecBg == InitBg /\ [][NextBg]_vars

\* Two contexts that create sessions and append evidence.
InitRace == Start /\ budget = MaxRaceCalls

NextRace ==
  \E c \in Ctx :
    \/ CreateCall(c)
    \/ CreateSetAppState(c)
    \/ CreateSetMirror(c)
    \/ AddCall(c)
    \/ AddPut(c)
    \/ Return(c)

SpecRace == InitRace /\ [][NextRace]_vars

\* ================================================================ capture UI
\* The background service worker (context 1) and the content script of the
\* active tab.  chrome.tabs.sendMessage delivers the background's messages to
\* the tab in the order they were sent; the response to a request the tab
\* sent travels on its own and is processed when its promise resolves.

\* ------------------------------------------ handleToggleCapture (background)
\* chrome.storage.local.get(['activeSessionId'])
ToggleCall ==
  /\ Enter(1)
  /\ Goto(1, IF mirror = Null THEN "toggle_get" ELSE "toggle_query",
          [NewFrame("toggle", Null) EXCEPT !.activeId = mirror])
  /\ toggle' = NoToggle
  /\ UNCHANGED <<storeVars, offVars, editVars, view, captureImage, croppedImage, isSaving, submit, save, inbox,
                 outbox, timers, arrived>>

\* Mutant: the durable pointer is not consulted.
ToggleGetActiveSkipped ==
  /\ pc[1] = "toggle_get"
  /\ Goto(1, "toggle_query", frame[1])
  /\ UNCHANGED <<storeVars, budget, uiVars>>

\* if (!activeId) activeId = await getActiveSessionId()
ToggleGetActive ==
  /\ pc[1] = "toggle_get"
  /\ Goto(1, "toggle_query", [frame[1] EXCEPT !.activeId = appState])
  /\ UNCHANGED <<storeVars, budget, uiVars>>

\* chrome.tabs.query; no tab: return; no session: OPEN_COLD_START
ToggleQuery ==
  /\ pc[1] = "toggle_query"
  /\ \E tab \in BOOLEAN :
       IF ~tab THEN
         /\ Goto(1, "done", [frame[1] EXCEPT !.result = "ok"])
         /\ UNCHANGED <<toggle, inbox>>
       ELSE IF frame[1].activeId # Null THEN
         /\ Goto(1, "toggle_capture", frame[1])
         /\ toggle' = [toggle EXCEPT !.tab = TRUE]
         /\ UNCHANGED inbox
       ELSE
         /\ Goto(1, "done", [frame[1] EXCEPT !.result = "ok"])
         /\ toggle' = [toggle EXCEPT !.tab = TRUE, !.sent = {"OPEN_COLD_START"}]
         /\ inbox' = Append(inbox, [type |-> "OPEN_COLD_START", image |-> NoImage, from |-> Null])
  /\ UNCHANGED <<storeVars, offVars, editVars, budget, view, captureImage, croppedImage, isSaving, submit, save,
                 outbox, timers, arrived>>

\* try { captureVisibleTab; sendMessage SHOW_CAPTURE_UI } catch { log }
ToggleCapture ==
  /\ pc[1] = "toggle_capture"
  /\ Goto(1, "done", [frame[1] EXCEPT !.result = "ok"])
  /\ \/ \E img \in Images :
          /\ toggle' = [toggle EXCEPT !.captured = TRUE, !.sent = {"SHOW_CAPTURE_UI"}]
          /\ inbox' = Append(inbox, [type |-> "SHOW_CAPTURE_UI", image |-> img, from |-> Null])
     \/ UNCHANGED <<toggle, inbox>>
  /\ UNCHANGED <<storeVars, offVars, editVars, budget, view, captureImage, croppedImage, isSaving, submit, save,
                 outbox, timers, arrived>>

ToggleReturn ==
  /\ frame[1].op = "toggle"
  /\ Return(1)

\* ------------------------------- CREATE_SESSION: handleCreateSession (background)
\* The request is taken up; createNewSession's first write.
BgCreateCall ==
  /\ pc[1] = "idle"
  /\ outbox # <<>>
  /\ Head(outbox).type = "CREATE_SESSION"
  /\ outbox' = Tail(outbox)
  /\ IF usedIds < MaxSessions THEN
       \E now \in Now :
         LET s == NewSession(FreshId, Head(outbox).name, now) IN
         /\ usedIds' = usedIds + 1
         /\ clock' = now
         /\ sessions' = Put(sessions, s)
         /\ Goto(1, "create_app", [NewFrame("create", s.id) EXCEPT !.name = s.name, !.session = s])
     ELSE
       /\ Goto(1, "done", [NewFrame("create", Null) EXCEPT !.name = Head(outbox).name,
                                                           !.result = "write failed"])
       /\ UNCHANGED <<usedIds, clock, sessions>>
  /\ UNCHANGED <<appState, mirror, itemSeq, added, archOrder, budget, offVars, editVars, view, captureImage,
                 croppedImage, isSaving, submit, save, inbox, timers, toggle, arrived>>

\* handleCreateSession after createNewSession: tabs.query, setTimeout(..., 500);
\* then the handler's promise settles and sendResponse runs.
BgCreateDone ==
  /\ pc[1] = "done"
  /\ frame[1].op = "create"
  /\ Goto(1, "idle", EmptyFrame)
  /\ IF frame[1].result = "ok" THEN
       /\ submit' = [st |-> "ok", id |-> frame[1].id]
       /\ \E tab \in BOOLEAN : timers' = IF tab THEN timers \cup {frame[1].id} ELSE timers
     ELSE
       /\ submit' = [st |-> "failed", id |-> Null]
       /\ UNCHANGED timers
  /\ UNCHANGED <<storeVars, offVars, editVars, budget, view, captureImage, croppedImage, isSaving, save, inbox,
                 outbox, toggle, arrived>>

\* The timer's callback: captureVisibleTab, sendMessage SHOW_CAPTURE_UI; a
\* failed capture is logged.
TimerFire ==
  \E id \in timers :
    /\ timers' = timers \ {id}
    /\ \/ \E img \in Images :
            inbox' = Append(inbox, [type |-> "SHOW_CAPTURE_UI", image |-> img, from |-> id])
       \/ UNCHANGED inbox
    /\ UNCHANGED <<storeVars, offVars, editVars, pc, frame, budget, view, captureImage, croppedImage, isSaving,
                   submit, save, outbox, toggle, arrived>>

\* --------------------------------- SAVE_EVIDENCE: handleSaveEvidence (background)
BgSaveCall ==
  /\ pc[1] = "idle"
  /\ outbox # <<>>
  /\ Head(outbox).type = "SAVE_EVIDENCE"
  /\ outbox' = Tail(outbox)
  /\ LET f == [NewFrame("save", appState) EXCEPT !.ev = Head(outbox).ev, !.activeId = appState] IN
       IF f.activeId = Null THEN Goto(1, "done", [f EXCEPT !.result = "No active session"])
       ELSE Goto(1, "save_get", f)
  /\ UNCHANGED <<storeVars, offVars, editVars, budget, view, captureImage, croppedImage, isSaving, submit, save,
                 inbox, timers, toggle, arrived>>

BgSaveDone ==
  /\ pc[1] = "done"
  /\ frame[1].op = "save"
  /\ Goto(1, "idle", EmptyFrame)
  /\ save' = IF Reply(frame[1]).success THEN "ok" ELSE "failed"
  /\ UNCHANGED <<storeVars, offVars, editVars, budget, view, captureImage, croppedImage, isSaving, submit, inbox,
                 outbox, timers, toggle, arrived>>

\* --------------------------------------------------- ContentApp (content script)
\* chrome.runtime.onMessage listener
ContentReceive ==
  /\ inbox # <<>>
  /\ inbox' = Tail(inbox)
  /\ LET msg == Head(inbox) IN
       IF msg.type = "OPEN_COLD_START" THEN
         /\ view' = "COLD_START"
         /\ UNCHANGED <<captureImage, arrived>>
       ELSE
         /\ captureImage' = msg.image
         /\ view' = "CAPTURE"
         /\ arrived' = IF msg.from = Null THEN arrived
                       ELSE [arrived EXCEPT ![msg.from] = @ \cup {"msg"}]
  /\ UNCHANGED <<storeVars, offVars, editVars, pc, frame, budget, croppedImage, isSaving, submit, save, outbox,
                 timers, toggle>>

\* ColdStartModal.handleSubmit up to its await
ModalSubmit ==
  /\ view = "COLD_START"
  /\ submit.st = "idle"
  /\ budget > 0
  /\ budget' = budget - 1
  /\ \E name \in Names :
       outbox' = Append(outbox, [type |-> "CREATE_SESSION", name |-> name, ev |-> NoEvidence])
  /\ submit' = [st |-> "sent", id |-> Null]
  /\ UNCHANGED <<storeVars, offVars, editVars, pc, frame, view, captureImage, croppedImage, isSaving, save, inbox,
                 timers, toggle, arrived>>

\* ColdStartModal.handleSubmit after its await: if (response?.success) onClose()
ModalResponse ==
  /\ submit.st \in {"ok", "failed"}
  /\ submit' = NoRequest
  /\ view' = IF submit.st = "ok" THEN "NONE" ELSE view
  /\ arrived' = IF submit.st = "ok" THEN [arrived EXCEPT ![submit.id] = @ \cup {"resp"}]
                ELSE arrived
  /\ UNCHANGED <<storeVars, offVars, editVars, pc, frame, budget, captureImage, croppedImage, isSaving, save,
                 inbox, outbox, timers, toggle>>

\* ColdStartModal onClose (Escape, close button)
ModalClose ==
  /\ view = "COLD_START"
  /\ view' = "NONE"
  /\ UNCHANGED <<storeVars, offVars, editVars, pc, frame, budget, captureImage, croppedImage, isSaving, submit,
                 save, inbox, outbox, timers, toggle, arrived>>

\* canvas.toDataURL of the selected region
Cropped(img) == IF img = "shot1" THEN "crop1" ELSE "crop2"

\* CaptureOverlay: Enter crops the whole image, a drag crops a region;
\* handleCrop: setCroppedImage, setView('ANNOTATE').  The editor mounts anew.
CaptureCrop ==
  /\ view = "CAPTURE"
  /\ captureImage # NoImage
  /\ \E img \in {captureImage, Cropped(captureImage)} : croppedImage' = img
  /\ view' = "ANNOTATE"
  /\ isSaving' = FALSE
  /\ UNCHANGED <<storeVars, offVars, editVars, pc, frame, budget, captureImage, submit, save, inbox, outbox,
                 timers, toggle, arrived>>

\* CaptureOverlay onCancel (Escape)
CaptureCancel ==
  /\ view = "CAPTURE"
  /\ captureImage # NoImage
  /\ view' = "NONE"
  /\ UNCHANGED <<storeVars, offVars, editVars, pc, frame, budget, captureImage, croppedImage, isSaving, submit,
                 save, inbox, outbox, timers, toggle, arrived>>

\* AnnotationModal onCancel
AnnotateCancel ==
  /\ view = "ANNOTATE"
  /\ croppedImage # NoImage
  /\ view' = "NONE"
  /\ UNCHANGED <<storeVars, offVars, editVars, pc, frame, budget, captureImage, croppedImage, isSaving, submit,
                 save, inbox, outbox, timers, toggle, arrived>>

\* AnnotationModal.handleSave up to await compressImage
SaveStart ==
  /\ view = "ANNOTATE"
  /\ croppedImage # NoImage
  /\ ~isSaving
  /\ save = "idle"
  /\ budget > 0
  /\ budget' = budget - 1
  /\ isSaving' = TRUE
  /\ save' = "compressing"
  /\ UNCHANGED <<storeVars, offVars, editVars, pc, frame, view, captureImage, croppedImage, submit, inbox, outbox,
                 timers, toggle, arrived>>

\* onSave -> handleSaveEvidence: chrome.runtime.sendMessage SAVE_EVIDENCE
SaveSend ==
  /\ save = "compressing"
  /\ itemSeq < MaxItems
  /\ \E ev \in EvidenceInputs :
       outbox' = Append(outbox, [type |-> "SAVE_EVIDENCE", name |-> "", ev |-> ev])
  /\ save' = "sent"
  /\ UNCHANGED <<storeVars, offVars, editVars, pc, frame, budget, view, captureImage, croppedImage, isSaving,
                 submit, inbox, timers, toggle, arrived>>

\* The send rejects (no receiver, extension context gone): the catch logs.
SaveSendRejects ==
  /\ save = "compressing"
  /\ save' = "rejected"
  /\ UNCHANGED <<storeVars, offVars, editVars, pc, frame, budget, view, captureImage, croppedImage, isSaving,
                 submit, inbox, outbox, timers, toggle, arrived>>

\* Mutant: the view is closed whatever the response.
SaveResponseCloses ==
  /\ save \in {"ok", "failed", "rejected"}
  /\ save' = "idle"
  /\ view' = "NONE"
  /\ UNCHANGED <<storeVars, offVars, editVars, pc, frame, budget, captureImage, croppedImage, isSaving, submit,
                 inbox, outbox, timers, toggle, arrived>>

\* handleSaveEvidence after its await: if (response?.success) setView('NONE')
SaveResponse ==
  /\ save \in {"ok", "failed", "rejected"}
  /\ save' = "idle"
  /\ view' = IF save = "ok" THEN "NONE" ELSE view
  /\ UNCHANGED <<storeVars, offVars, editVars, pc, frame, budget, captureImage, croppedImage, isSaving, submit,
                 inbox, outbox, timers, toggle, arrived>>

InitUi == Start /\ budget = MaxUiCalls

NextUi ==
  \/ ToggleCall
  \/ ToggleGetActive
  \/ ToggleQuery
  \/ ToggleCapture
  \/ ToggleReturn
  \/ BgCreateCall
  \/ CreateSetAppState(1)
  \/ CreateSetAppStateFails(1)
  \/ CreateSetMirror(1)
  \/ CreateSetMirrorFails(1)
  \/ BgCreateDone
  \/ TimerFire
  \/ BgSaveCall
  \/ SaveGet(1)
  \/ AddPut(1)
  \/ AddPutFails(1)
  \/ BgSaveDone
  \/ ContentReceive
  \/ ModalSubmit
  \/ ModalResponse
  \/ ModalClose
  \/ CaptureCrop
  \/ CaptureCancel
  \/ AnnotateCancel
  \/ SaveStart
  \/ SaveSend
  \/ SaveSendRejects
  \/ SaveResponse

SpecUi == InitUi /\ [][NextUi]_vars

\* ========================================================= offscreen document
\* EXPORT_DOCX / EXPORT_PDF requests run handleExport concurrently in the
\* background.  The browser serves the chrome API calls of the background in
\* the order they were issued and its results reach the background in the
\* order they were produced; the code after an await runs when the result is
\* delivered.

\* handleExport -> setupOffscreenDocument -> hasOffscreenDocument: getContexts
ExportCall(r) ==
  /\ exports[r] = "idle"
  /\ exports' = [exports EXCEPT ![r] = "has_wait"]
  /\ apiQ' = Append(apiQ, [req |-> r, call |-> "getContexts"])
  /\ UNCHANGED <<storeVars, pc, frame, budget, contentVars, editVars, offDoc, creatingOffscreen, replyQ>>

\* The browser serves the oldest call.  getContexts answers whether the
\* document exists; createDocument creates it, or fails.
BrowserServe ==
  /\ apiQ # <<>>
  /\ apiQ' = Tail(apiQ)
  /\ LET a == Head(apiQ) IN
       IF a.call = "getContexts" THEN
         /\ replyQ' = Append(replyQ, [req |-> a.req, call |-> a.call, ok |-> offDoc = "exists"])
         /\ UNCHANGED offDoc
       ELSE
         \/ /\ offDoc = "none"
            /\ offDoc' = "exists"
            /\ replyQ' = Append(replyQ, [req |-> a.req, call |-> a.call, ok |-> TRUE])
         \/ /\ replyQ' = Append(replyQ, [req |-> a.req, call |-> a.call, ok |-> FALSE])
            /\ UNCHANGED offDoc
  /\ UNCHANGED <<storeVars, pc, frame, budget, contentVars, editVars, creatingOffscreen, exports>>

\* Mutant: the creatingOffscreen guard is missing.
SetupAfterHasUnguarded ==
  /\ replyQ # <<>>
  /\ Head(replyQ).call = "getContexts"
  /\ replyQ' = Tail(replyQ)
  /\ LET r == Head(replyQ).req IN
       IF Head(replyQ).ok THEN
         /\ exports' = [exports EXCEPT ![r] = "send"]
         /\ UNCHANGED <<creatingOffscreen, apiQ>>
       ELSE
         /\ creatingOffscreen' = "pending"
         /\ apiQ' = Append(apiQ, [req |-> r, call |-> "createDocument"])
         /\ exports' = [exports EXCEPT ![r] = "create_own"]
  /\ UNCHANGED <<storeVars, pc, frame, budget, contentVars, editVars, offDoc>>

\* setupOffscreenDocument after await hasOffscreenDocument(): return if the
\* document exists; await the pending promise if there is one (a rejected
\* one throws); otherwise call createDocument and keep its promise.
SetupAfterHas ==
  /\ replyQ # <<>>
  /\ Head(replyQ).call = "getContexts"
  /\ replyQ' = Tail(replyQ)
  /\ LET r == Head(replyQ).req IN
       IF Head(replyQ).ok THEN
         /\ exports' = [exports EXCEPT ![r] = "send"]
         /\ UNCHANGED <<creatingOffscreen, apiQ>>
       ELSE IF creatingOffscreen = "pending" THEN
         /\ exports' = [exports EXCEPT ![r] = "create_wait"]
         /\ UNCHANGED <<creatingOffscreen, apiQ>>
       ELSE IF creatingOffscreen = "rejected" THEN
         /\ exports' = [exports EXCEPT ![r] = "failed"]
         /\ UNCHANGED <<creatingOffscreen, apiQ>>
       ELSE
         /\ creatingOffscreen' = "pending"
         /\ apiQ' = Append(apiQ, [req |-> r, call |-> "createDocument"])
         /\ exports' = [exports EXCEPT ![r] = "create_own"]
  /\ UNCHANGED <<storeVars, pc, frame, budget, contentVars, editVars, offDoc>>

\* The createDocument promise settles.  Fulfilled: its caller sets
\* creatingOffscreen = null and every awaiting call returns from
\* setupOffscreenDocument.  Rejected: every awaiting call throws and the
\* rejected promise stays in creatingOffscreen.
SetupAfterCreate ==
  /\ replyQ # <<>>
  /\ Head(replyQ).call = "createDocument"
  /\ replyQ' = Tail(replyQ)
  /\ LET r == Head(replyQ).req
         waiting == {q \in Exports : exports[q] = "create_wait"} \cup {r}
     IN IF Head(replyQ).ok THEN
          /\ creatingOffscreen' = "null"
          /\ exports' = [q \in Exports |-> IF q \in waiting THEN "send" ELSE exports[q]]
        ELSE
          /\ creatingOffscreen' = "rejected"
          /\ exports' = [q \in Exports |-> IF q \in waiting THEN "failed" ELSE exports[q]]
  /\ UNCHANGED <<storeVars, pc, frame, budget, contentVars, editVars, offDoc, apiQ>>

\* handleExport: sendMessage to the offscreen document; a response without
\* success throws, otherwise chrome.downloads.download.
ExportSend(r) ==
  /\ exports[r] = "send"
  /\ \E ok \in BOOLEAN : exports' = [exports EXCEPT ![r] = IF ok THEN "download" ELSE "failed"]
  /\ UNCHANGED <<storeVars, pc, frame, budget, contentVars, editVars, offDoc, creatingOffscreen, apiQ, replyQ>>

ExportDownload(r) ==
  /\ exports[r] = "download"
  /\ exports' = [exports EXCEPT ![r] = "done"]
  /\ UNCHANGED <<storeVars, pc, frame, budget, contentVars, editVars, offDoc, creatingOffscreen, apiQ, replyQ>>

InitOff == Start /\ budget = 0

NextOff ==
  \/ \E r \in Exports : ExportCall(r)
  \/ BrowserServe
  \/ SetupAfterHas
  \/ SetupAfterCreate
  \/ \E r \in Exports : ExportSend(r)
  \/ \E r \in Exports : ExportDownload(r)

SpecOff == InitOff /\ [][NextOff]_vars

\* ========================================================== annotation editor
\* The undo / redo stacks of the annotation editor (useFabricCanvas.ts and
\* the same code in AnnotationModal.tsx).  A saved state is the canvas
\* serialised without its background: here the set of objects on it.  The
\* stack operations of handleUndo / handleRedo run before their await; the
\* loadFromJSON they start finishes later.

Reverse(s) == [k \in 1..Len(s) |-> s[Len(s) + 1 - k]]

\* saveState: push JSON.stringify(canvas.toJSON()), redoStackRef.current = []
SaveState(cv) ==
  /\ history' = Append(history, cv)
  /\ redoStack' = <<>>

\* One handler invocation of the editor.
EditorCall(op) ==
  /\ budget > 0
  /\ budget' = budget - 1
  /\ lastOp' = op

\* img.onload: setImgElement, applyBackground, saveState (the undo base)
ImageLoad ==
  /\ ~imgElement
  /\ EditorCall("load")
  /\ imgElement' = TRUE
  /\ SaveState(canvas)
  /\ UNCHANGED <<storeVars, pc, frame, contentVars, offVars, canvas, loads, nextObj>>

\* mouse:up of a drawing tool: the new object is on the canvas, saveState
Draw ==
  /\ nextObj < MaxObjects
  /\ EditorCall("draw")
  /\ nextObj' = nextObj + 1
  /\ canvas' = canvas \cup {nextObj + 1}
  /\ SaveState(canvas')
  /\ UNCHANGED <<storeVars, pc, frame, contentVars, offVars, imgElement, loads>>

\* Delete / Backspace with a selection: remove, saveState
DeleteObject ==
  /\ \E o \in canvas :
       /\ canvas' = canvas \ {o}
       /\ SaveState(canvas')
  /\ EditorCall("delete")
  /\ UNCHANGED <<storeVars, pc, frame, contentVars, offVars, imgElement, loads, nextObj>>

\* clearAll: remove every object, saveState
ClearAll ==
  /\ EditorCall("clear")
  /\ canvas' = {}
  /\ SaveState(canvas')
  /\ UNCHANGED <<storeVars, pc, frame, contentVars, offVars, imgElement, loads, nextObj>>

\* Mutant: the undone state is not kept for redo.
HandleUndoDrops ==
  /\ EditorCall("undo")
  /\ IF Len(history) <= 1 \/ ~imgElement THEN UNCHANGED <<history, redoStack, loads>>
     ELSE /\ history' = SubSeq(history, 1, Len(history) - 1)
          /\ UNCHANGED redoStack
          /\ loads' = Append(loads, history'[Len(history')])
  /\ UNCHANGED <<storeVars, pc, frame, contentVars, offVars, canvas, imgElement, nextObj>>

\* handleUndo up to its await: return at length <= 1; pop history, push the
\* popped state on the redo stack, start loading the state now on top
HandleUndo ==
  /\ EditorCall("undo")
  /\ IF Len(history) <= 1 \/ ~imgElement THEN UNCHANGED <<history, redoStack, loads>>
     ELSE /\ history' = SubSeq(history, 1, Len(history) - 1)
          /\ redoStack' = Append(redoStack, history[Len(history)])
          /\ loads' = Append(loads, history'[Len(history')])
  /\ UNCHANGED <<storeVars, pc, frame, contentVars, offVars, canvas, imgElement, nextObj>>

\* handleRedo up to its await: return on an empty redo stack; pop it, push
\* the state on history, start loading it
HandleRedo ==
  /\ EditorCall("redo")
  /\ IF Len(redoStack) = 0 \/ ~imgElement THEN UNCHANGED <<history, redoStack, loads>>
     ELSE /\ redoStack' = SubSeq(redoStack, 1, Len(redoStack) - 1)
          /\ history' = Append(history, redoStack[Len(redoStack)])
          /\ loads' = Append(loads, redoStack[Len(redoStack)])
  /\ UNCHANGED <<storeVars, pc, frame, contentVars, offVars, canvas, imgElement, nextObj>>

\* A loadFromJSON finishes: the canvas shows the loaded state.
LoadDone ==
  /\ loads # <<>>
  /\ canvas' = Head(loads)
  /\ loads' = Tail(loads)
  /\ UNCHANGED <<storeVars, pc, frame, budget, contentVars, offVars, imgElement, history,
                 redoStack, nextObj, lastOp>>

InitEdit == Start /\ budget = MaxEditorOps

NextEdit ==
  \/ ImageLoad
  \/ Draw
  \/ DeleteObject
  \/ ClearAll
  \/ HandleUndo
  \/ HandleRedo
  \/ LoadDone

SpecEdit == InitEdit /\ [][NextEdit]_vars


\* createDocument calls the browser has not served or whose result the
\* background has not processed.
CreatesInFlight(aq, rq) ==
  Len(SelectSeq(aq, LAMBDA a : a.call = "createDocument"))
    + Len(SelectSeq(rq, LAMBDA a : a.call = "createDocument"))



\* ================================================================ claims
\* No call is between two of its steps.
Quiescent == \A c \in Ctx : pc[c] \in {"idle", "done"}

\* Context c's call op has just returned successfully.
Returned(c, op) == pc[c] = "done" /\ frame[c].op = op /\ frame[c].result = "ok"

EvidenceOf(item) ==
  [description |-> item.description, imageUrl |-> item.imageUrl, url |-> item.url]

EvidenceSeq(items) == [k \in DOMAIN items |-> EvidenceOf(items[k])]

AllItemIds == UNION {{sessions[i].items[k].id : k \in DOMAIN sessions[i].items} : i \in DOMAIN sessions}

ItemCount == LET n[S \in SUBSET Ids] ==
                   IF S = {} THEN 0
                   ELSE LET i == CHOOSE x \in S : TRUE
                        IN n[S \ {i}] + (IF i \in DOMAIN sessions THEN Len(sessions[i].items) ELSE 0)
             IN n[Ids]

\* a is b with some elements left out, the rest in b's order
RECURSIVE IsSubSeq(_, _)
IsSubSeq(a, b) ==
  IF a = <<>> THEN TRUE
  ELSE IF b = <<>> THEN FALSE
  ELSE IF Head(a) = Head(b) THEN IsSubSeq(Tail(a), Tail(b))
  ELSE IsSubSeq(a, Tail(b))

PosIn(q, x) == CHOOSE k \in DOMAIN q : q[k] = x

\* ---- C1
\* C1: whenever no call is in progress, the durable active pointer is null or
\* the id of a stored session that is not archived.
C1_ActivePointerValid ==
  Quiescent =>
    \/ appState = Null
    \/ appState \in DOMAIN sessions /\ ~sessions[appState].archived

\* ---- C2
\* C2: the step that removes or archives the record the durable pointer names
\* also clears the pointer: no state shows the record gone (or archived) with
\* the pointer still on it.
C2_AtomicPointerClearing ==
  [][\A i \in Ids :
       (/\ appState = i
        /\ i \in DOMAIN sessions
        /\ \/ i \notin DOMAIN sessions'
           \/ ~sessions[i].archived /\ sessions'[i].archived)
       => appState' = Null]_vars

\* ---- C3
\* C3: when archiveSession(id, K) or deleteSession(id) has returned, the
\* pointer (durable and mirror) is null if id was active when the call began,
\* and otherwise both are what they were.
C3_PointerConsistency ==
  \A c \in Ctx :
    (Returned(c, "archive") \/ Returned(c, "delete")) =>
      IF frame[c].preApp = frame[c].id
      THEN appState = Null /\ mirror = Null
      ELSE appState = frame[c].preApp /\ mirror = frame[c].preMirror

\* ---- C4
\* C4: createNewSession(name) takes an id no stored session has and adds
\* exactly that record; when it has returned, the returned session has the
\* given name, is not archived and has no items, is what the store holds
\* under its id, and the durable pointer is its id.
C4_CreatePostState ==
  \A c \in Ctx :
    Returned(c, "create") =>
      LET s == frame[c].session IN
      /\ s.name = frame[c].name
      /\ ~s.archived
      /\ s.items = <<>>
      /\ s.id \in DOMAIN sessions
      /\ sessions[s.id] = s
      /\ appState = s.id

C4_CreateFreshId ==
  \A c \in Ctx :
    (pc[c] = "idle" /\ pc'[c] = "create_app") =>
      /\ frame'[c].session.id \notin DOMAIN sessions
      /\ DOMAIN sessions' = DOMAIN sessions \cup {frame'[c].session.id}
      /\ \A i \in DOMAIN sessions : sessions'[i] = sessions[i]

C4_CreateSession == []C4_CreatePostState /\ [][C4_CreateFreshId]_vars

C4_Witness ==
  \E c \in Ctx :
    /\ Returned(c, "create")
    /\ frame[c].preApp # Null
    /\ frame[c].preApp # frame[c].session.id
    /\ appState = frame[c].session.id

\* ---- C5
\* C5: calls run one at a time; when createNewSession, setActiveSession,
\* archiveSession or deleteSession has returned, the mirror holds what the
\* durable pointer holds (no key = null).
C5_MirrorEqualsDurable ==
  \A c \in Ctx :
    (pc[c] = "done" /\ frame[c].op \in {"create", "activate", "archive", "delete"}) =>
      mirror = appState

C5_Witness ==
  \E c \in Ctx :
    /\ Returned(c, "delete")
    /\ frame[c].preMirror = frame[c].id
    /\ frame[c].id \in Ids
    /\ mirror = Null
    /\ appState = Null

\* ---- C6
\* C6: with calls from two contexts interleaved, once every call has returned
\* the mirror and the durable pointer hold the same value.
C6_MirrorAgreesAfterRace ==
  (\A c \in Ctx : pc[c] = "idle") => mirror = appState

\* ---- C7
\* C7: calls run one at a time; a stored session's items are, in call order,
\* the evidence of the addEvidenceToSession calls that returned for it (so N
\* calls leave N items), and no two items in the store share an id.
C7_SequentialAppend ==
  Quiescent =>
    /\ \A i \in DOMAIN sessions : EvidenceSeq(sessions[i].items) = added[i]
    /\ Cardinality(AllItemIds) = ItemCount

C7_Witness ==
  /\ Quiescent
  /\ \E i \in DOMAIN sessions :
       /\ Len(sessions[i].items) = 2
       /\ sessions[i].items[1].description # sessions[i].items[2].description

\* ---- C8
\* C8: two addEvidenceToSession calls on one session can both return while
\* the store keeps one of the two items (the witness); what the store holds
\* is never more than was added: its items are the evidence of returned
\* calls, in call order, with some possibly lost.
C8_StoredItemsWereAdded ==
  \A i \in DOMAIN sessions : IsSubSeq(EvidenceSeq(sessions[i].items), added[i])

C8_LostUpdateWitness ==
  \E i \in DOMAIN sessions :
    /\ \A c \in Ctx : Returned(c, "add") /\ frame[c].id = i
    /\ Len(added[i]) = 2
    /\ Len(sessions[i].items) = 1

\* ---- C9
\* C9: when archiveSession(id, K) has returned, at most K stored sessions are
\* archived (none for K = 0).
C9_RetentionBound ==
  \A c \in Ctx :
    Returned(c, "archive") => Cardinality(ArchivedIds(sessions)) <= frame[c].K

C9_Witness ==
  \E c \in Ctx :
    /\ Returned(c, "archive")
    /\ frame[c].K = 1
    /\ frame[c].evicted # {}
    /\ Cardinality(ArchivedIds(sessions)) = 1

\* ---- C10
\* C10: when archiveSession(id, K) has returned after evicting, every archived
\* session that remains was archived more recently than every session the
\* call evicted.
C10_KeepsMostRecentlyArchived ==
  \A c \in Ctx :
    Returned(c, "archive") =>
      \A e \in frame[c].evicted, r \in ArchivedIds(sessions) :
        PosIn(archOrder, e) < PosIn(archOrder, r)

\* ---- C11
\* C11: when archiveSession(id, K) has returned, with c the number of sessions
\* archived once id was marked: it deleted exactly c - K sessions if c > K and
\* none otherwise, every deleted session was archived, no deleted session was
\* created later than an archived session that remains, and every unarchived
\* session is stored as it was.
C11_EvictionOrderAndExtent ==
  \A c \in Ctx :
    Returned(c, "archive") =>
      LET f == frame[c]
          pre == f.preSessions
          arch == ArchivedIds(pre) \cup {f.id}
          n == Cardinality(arch)
      IN /\ f.evicted \subseteq arch
         /\ Cardinality(f.evicted) = IF n > f.K THEN n - f.K ELSE 0
         /\ DOMAIN sessions = (DOMAIN pre) \ f.evicted
         /\ \A e \in f.evicted, r \in arch \ f.evicted :
              pre[e].createdAt <= pre[r].createdAt
         /\ \A i \in (DOMAIN pre) \ arch : sessions[i] = pre[i]

C11_Witness ==
  \E c \in Ctx :
    /\ Returned(c, "archive")
    /\ frame[c].evicted # {}
    /\ \E r \in ArchivedIds(sessions) :
         \A e \in frame[c].evicted :
           frame[c].preSessions[e].createdAt < sessions[r].createdAt

\* ---- C12
\* C12: when renameSession, addEvidenceToSession or archiveSession was called
\* with an id the store did not hold, the call has ended with 'Session not
\* found', and the stored sessions, the durable pointer and the mirror are
\* what they were when it was called.
C12_MissingIdNoEffect ==
  \A c \in Ctx :
    (/\ pc[c] = "done"
     /\ frame[c].op \in {"rename", "add", "archive"}
     /\ frame[c].id \notin DOMAIN frame[c].preSessions) =>
      /\ frame[c].result = "Session not found"
      /\ sessions = frame[c].preSessions
      /\ appState = frame[c].preApp
      /\ mirror = frame[c].preMirror

C12_Witness ==
  \E c \in Ctx :
    /\ pc[c] = "done"
    /\ frame[c].op = "add"
    /\ frame[c].result = "Session not found"
    /\ sessions # << >>
    /\ appState # Null
    /\ frame[c].id \notin DOMAIN sessions

\* ---- C13
\* C13: no step takes a stored session from archived to not archived: a
\* session that is archived and is still stored after the step is still
\* archived.
C13_ArchiveIrreversible ==
  [][\A i \in DOMAIN sessions :
       (sessions[i].archived /\ i \in DOMAIN sessions') => sessions'[i].archived]_vars

\* ---- C14
\* C14: no step changes the items of a stored session that is archived: as
\* long as an archived session is stored its items are what they were when it
\* was archived.
C14_ArchivedClosedToCaptures ==
  [][\A i \in DOMAIN sessions :
       (sessions[i].archived /\ i \in DOMAIN sessions') =>
         sessions'[i].items = sessions[i].items]_vars

\* ---- C15
\* C15: when deleteSession(id) was called with an id the store did not hold,
\* it has returned without error, the store is without that id and otherwise
\* what it was, and the durable pointer and the mirror are what they were.
C15_DeleteIdempotent ==
  \A c \in Ctx :
    (/\ pc[c] = "done"
     /\ frame[c].op = "delete"
     /\ frame[c].id \notin DOMAIN frame[c].preSessions) =>
      /\ frame[c].result = "ok"
      /\ sessions = frame[c].preSessions
      /\ appState = frame[c].preApp
      /\ mirror = frame[c].preMirror

C17_ActivateUnvalidated ==
  \A c \in Ctx :
    (pc[c] = "done" /\ frame[c].op = "activate") =>
      /\ frame[c].result = "ok"
      /\ appState = frame[c].id
      /\ mirror = frame[c].id
      /\ sessions = frame[c].preSessions

C17_Witness ==
  \E c \in Ctx :
    /\ Returned(c, "activate")
    /\ frame[c].id \notin DOMAIN sessions
    /\ \E i \in DOMAIN sessions : sessions[i].archived
    /\ frame[c].preApp # frame[c].id
    /\ appState = frame[c].id

\* ---- C18
\* C18: when createNewSession has returned, the store holds the sessions it
\* held before, each as it was, and one more: the new one.
C18_CreateLeavesOthersAlone ==
  \A c \in Ctx :
    Returned(c, "create") =>
      LET pre == frame[c].preSessions
          new == frame[c].session.id
      IN /\ new \notin DOMAIN pre
         /\ DOMAIN sessions = (DOMAIN pre) \cup {new}
         /\ \A i \in DOMAIN pre : sessions[i] = pre[i]

C18_Witness ==
  \E c \in Ctx :
    /\ Returned(c, "create")
    /\ \E i \in DOMAIN frame[c].preSessions :
         /\ frame[c].preApp = i
         /\ sessions[i].items # <<>>
         /\ ~sessions[i].archived
    /\ appState = frame[c].session.id

\* ---- C19
\* C19: when renameSession(id, newName) has returned for a stored id, the
\* session is what it was with its name replaced by newName, every other
\* session is what it was, and so are the durable pointer and the mirror; the
\* witness is a state where two stored sessions then have the same name.
C19_RenameChangesOnlyName ==
  \A c \in Ctx :
    Returned(c, "rename") =>
      LET f == frame[c]
          pre == f.preSessions
      IN /\ DOMAIN sessions = DOMAIN pre
         /\ sessions[f.id] = [pre[f.id] EXCEPT !.name = f.name]
         /\ \A i \in (DOMAIN pre) \ {f.id} : sessions[i] = pre[i]
         /\ appState = f.preApp
         /\ mirror = f.preMirror

C19_Witness ==
  \E c \in Ctx :
    /\ Returned(c, "rename")
    /\ frame[c].preSessions[frame[c].id].name # frame[c].name
    /\ sessions[frame[c].id].items # <<>>
    /\ \E i \in (DOMAIN sessions) \ {frame[c].id} : sessions[i].name = frame[c].name

C25_DeletedStaysDeleted ==
  \A c \in Ctx :
    (Returned(c, "delete") /\ frame[c].id \in DOMAIN frame[c].preSessions) =>
      frame[c].id \notin DOMAIN sessions

\* ---- C26
\* C26: when a renameSession and an addEvidenceToSession on the same session,
\* called from two contexts, have both returned, the stored session has the
\* new name, the items it had when the first of the two was called, and the
\* added item.
C26_RenameKeepsEvidence ==
  \A c, d \in Ctx :
    (/\ Returned(c, "rename")
     /\ Returned(d, "add")
     /\ frame[c].id = frame[d].id
     /\ frame[c].id \in DOMAIN sessions) =>
      LET s == sessions[frame[c].id]
          new == frame[d].session.items[Len(frame[d].session.items)]
      IN /\ s.name = frame[c].name
         /\ \E k \in DOMAIN s.items : s.items[k] = new
         /\ IsSubSeq(frame[c].preSessions[frame[c].id].items, s.items)
         /\ IsSubSeq(frame[d].preSessions[frame[d].id].items, s.items)

\* ---- C21
\* C21: when the store has rejected the write of addEvidenceToSession, the
\* call has ended with that error (the SAVE_EVIDENCE reply has success =
\* false), the stored sessions are what they were when it was called, and the
\* step from the write ends the call: the write is not tried again.
C21_FailedWriteState ==
  \A c \in Ctx :
    (pc[c] = "done" /\ frame[c].result = "QuotaExceededError") =>
      /\ frame[c].op \in {"add", "save"}
      /\ ~Reply(frame[c]).success
      /\ Reply(frame[c]).error = "QuotaExceededError"
      /\ sessions = frame[c].preSessions

C21_WriteTriedOnce ==
  \A c \in Ctx : (pc[c] = "add_put" /\ pc'[c] # "add_put") => pc'[c] = "done"

C21_WriteFailureSurfaced == []C21_FailedWriteState /\ [][C21_WriteTriedOnce]_vars

C21_Witness ==
  \E c \in Ctx :
    /\ pc[c] = "done"
    /\ frame[c].op = "save"
    /\ frame[c].result = "QuotaExceededError"
    /\ frame[c].id \in DOMAIN sessions
    /\ sessions[frame[c].id].items # <<>>

C24_WitnessNoPointer ==
  \E c \in Ctx :
    /\ pc[c] = "done" /\ frame[c].op = "save"
    /\ Reply(frame[c]).error = "No active session"
    /\ sessions # <<>>

C24_WitnessMissing ==
  \E c \in Ctx :
    /\ pc[c] = "done" /\ frame[c].op = "save"
    /\ Reply(frame[c]).error = "Session not found"

\* ---- C27
\* C27: when createNewSession has failed at one of its writes, the stored
\* sessions, the durable pointer and the mirror are what they were when it
\* was called, and the pointer and the mirror hold the same value.
C27_CreateAllOrNothing ==
  \A c \in Ctx :
    (pc[c] = "done" /\ frame[c].op = "create" /\ frame[c].result # "ok") =>
      /\ sessions = frame[c].preSessions
      /\ appState = frame[c].preApp
      /\ mirror = frame[c].preMirror
      /\ appState = mirror

\* ---- C22
\* C22: when handleToggleCapture has ended for a command that found an active
\* tab, it has sent OPEN_COLD_START and nothing else if the mirror and the
\* durable pointer were both empty, and SHOW_CAPTURE_UI and nothing else if a
\* session was active.
C22_ToggleRouting ==
  (pc[1] = "done" /\ frame[1].op = "toggle" /\ toggle.tab) =>
    toggle.sent = IF frame[1].preMirror = Null /\ frame[1].preApp = Null
                  THEN {"OPEN_COLD_START"} ELSE {"SHOW_CAPTURE_UI"}

\* C22 (amended): with both pointers empty it has sent OPEN_COLD_START alone
\* and captured nothing; with a session active it has sent SHOW_CAPTURE_UI
\* alone if captureVisibleTab succeeded and has sent nothing if it failed. It
\* never sends both messages for one command.
C22_ToggleRoutingCaptured ==
  (pc[1] = "done" /\ frame[1].op = "toggle" /\ toggle.tab) =>
    IF frame[1].preMirror = Null /\ frame[1].preApp = Null
    THEN toggle.sent = {"OPEN_COLD_START"} /\ ~toggle.captured
    ELSE toggle.sent = (IF toggle.captured THEN {"SHOW_CAPTURE_UI"} ELSE {})

C22_Witness ==
  /\ pc[1] = "done" /\ frame[1].op = "toggle" /\ toggle.tab
  /\ frame[1].preMirror = Null /\ frame[1].preApp # Null
  /\ toggle.sent = {"SHOW_CAPTURE_UI"}
  /\ Len(inbox) > 0 /\ inbox[Len(inbox)].type = "SHOW_CAPTURE_UI"

C22_WitnessColdStart ==
  /\ pc[1] = "done" /\ frame[1].op = "toggle" /\ toggle.tab
  /\ toggle.sent = {"OPEN_COLD_START"}

C22_WitnessCaptureFailed ==
  /\ pc[1] = "done" /\ frame[1].op = "toggle" /\ toggle.tab
  /\ frame[1].preMirror # Null /\ toggle.sent = {}

\* ---- C23
\* C23: at the step after which the tab has processed both the success
\* response to CREATE_SESSION and the SHOW_CAPTURE_UI message of that
\* session's auto-capture, the view is CAPTURE, whichever of the two was
\* processed last.
C23_ColdStartLeadsToCapture ==
  [][\A i \in Ids :
       (arrived'[i] = {"resp", "msg"} /\ arrived[i] # arrived'[i]) => view' = "CAPTURE"]_vars

\* ---- C29
\* C29: the view is always one of NONE, COLD_START, CAPTURE, ANNOTATE; a step
\* that enters ANNOTATE starts in CAPTURE and stores a crop of the captured
\* image; a step of a save attempt that moves the view from ANNOTATE to NONE
\* is the processing of a response with success = true, and that processing
\* always ends in NONE; processing a failed response or a rejected send
\* leaves the view and the cropped image as they are.
C29_ViewType == view \in Views

C29_Step ==
  /\ (view' = "ANNOTATE" /\ view # "ANNOTATE") =>
       (view = "CAPTURE" /\ croppedImage' \in {captureImage, Cropped(captureImage)})
  /\ (view = "ANNOTATE" /\ view' = "NONE" /\ save' # save) => save = "ok"
  /\ (save = "ok" /\ save' = "idle") => view' = "NONE"
  /\ (save \in {"failed", "rejected"} /\ save' = "idle") =>
       (view' = view /\ croppedImage' = croppedImage)

C29_ContentViewMachine == []C29_ViewType /\ [][C29_Step]_vars

C29_Witness ==
  /\ view = "ANNOTATE"
  /\ croppedImage # NoImage
  /\ isSaving
  /\ save = "idle"

C29_WitnessSaved ==
  /\ view = "NONE"
  /\ isSaving
  /\ save = "idle"
  /\ \E i \in DOMAIN sessions : sessions[i].items # <<>>

\* ---- C28
\* C28: a step in which some export request calls createDocument starts in a
\* state where no offscreen document exists and no other createDocument call
\* is in flight; so at most one call is in flight at any time, and none while
\* the document exists.
C28_CallsCreate ==
  Len(SelectSeq(apiQ', LAMBDA a : a.call = "createDocument"))
    > Len(SelectSeq(apiQ, LAMBDA a : a.call = "createDocument"))

C28_AtMostOne ==
  /\ CreatesInFlight(apiQ, replyQ) <= 1
  /\ (offDoc = "exists" /\ creatingOffscreen # "pending") => CreatesInFlight(apiQ, replyQ) = 0

C28_WitnessReused ==
  /\ offDoc = "exists"
  /\ creatingOffscreen = "null"
  /\ Cardinality({r \in Exports : exports[r] = "done"}) = MaxExports

\* ---- C30
\* C30: once the image has loaded and the initial state is saved, the history
\* holds at least one state.  An undo or redo leaves history followed by the
\* reversed redo stack unchanged; undo at history length 1 and redo on an
\* empty redo stack change neither stack.  Every handler that saves a new
\* state appends it to the history and leaves the redo stack empty.
C30_HistoryNonEmpty == imgElement => Len(history) >= 1

C30_Step ==
  budget' < budget =>
    /\ lastOp' \in {"undo", "redo"} =>
         history' \o Reverse(redoStack') = history \o Reverse(redoStack)
    /\ (lastOp' = "undo" /\ Len(history) <= 1) => UNCHANGED <<history, redoStack>>
    /\ (lastOp' = "undo" /\ Len(history) > 1 /\ imgElement) =>
         (Len(history') = Len(history) - 1 /\ Len(redoStack') = Len(redoStack) + 1)
    /\ (lastOp' = "redo" /\ Len(redoStack) = 0) => UNCHANGED <<history, redoStack>>
    /\ (lastOp' = "redo" /\ Len(redoStack) > 0 /\ imgElement) =>
         (Len(history') = Len(history) + 1 /\ Len(redoStack') = Len(redoStack) - 1)
    /\ lastOp' \in {"load", "draw", "delete", "clear"} =>
         (redoStack' = <<>> /\ history' = Append(history, canvas'))

C30_UndoRedoKeepsStates == []C30_HistoryNonEmpty /\ [][C30_Step]_vars

C30_Witness ==
  /\ lastOp = "redo"
  /\ Len(history) >= 2
  /\ Len(redoStack) >= 1

C30_WitnessRedoCleared ==
  /\ lastOp = "draw"
  /\ redoStack = <<>>
  /\ Len(history) = 2
  /\ nextObj = 2

====
